---- MODULE Spec2Model ----
(***************************************************************************)
(* Model of the resumable chunked uploader of file-tunnel: the chunk and   *)
(* file objects built by createResumableChunk / createResumableFile, the   *)
(* scheduler uploadNextChunk and the admission appendFilesFromFileList of  *)
(* the useUploader hook.  Byte sizes are small integers; an XMLHttpRequest *)
(* is a record (kind, readyState, status); timers, promise continuations   *)
(* and the filesRef effect are separate steps.  The upload route of the    *)
(* server is the set of chunk files in its upload directory.  queuePause   *)
(* is the caller's side of the queue-level pause() that the type of the    *)
(* hook's result declares: whether the caller has asked for it.            *)
(***************************************************************************)
EXTENDS Integers, Sequences, FiniteSets, TLC

VARIABLES opt, fobjs, chunks, files, filesRef, thens, advTimers, ccTimers,
          retryL, shown, ev, disp, uploads, queuePause

vars == <<opt, fobjs, chunks, files, filesRef, thens, advTimers, ccTimers,
          retryL, shown, ev, disp, uploads, queuePause>>

(* ------------------------------ bounds --------------------------------- *)
MaxSize == 6
MaxChunkSize == 3
MaxFileObjs == 2
MaxChunkObjs == 8
MaxPending == 2
MaxZombies == 1
RetryCap == 3
MaxLoaded == 3

(* --------------------------- program constants ------------------------- *)
permanentErrors == {400, 401, 403, 404, 409, 415, 500, 501}

\* status codes a request resolves with: success, a permanent error, a
\* transient error; a network error or timeout (status 0) takes the same
\* branches as 503
Codes == {200, 404, 503}

(* ------------------------------ helpers -------------------------------- *)
\* F applied to the value of v: v is evaluated once
Bind(v, F(_)) == CHOOSE r \in {F(x) : x \in {v}} : TRUE

Min(a, b) == IF a < b THEN a ELSE b

Max(a, b) == IF a > b THEN a ELSE b

Sat(n) == n + 1

floor(a, b) == a \div b

ceil(a, b) == (a + b - 1) \div b

RECURSIVE GCD(_, _)
GCD(a, b) == IF b = 0 THEN a ELSE GCD(b, a % b)

\* exact fractions <<numerator, denominator>> stand for the doubles of the code
Norm(r) == LET g == GCD(r[1], r[2]) IN IF g = 0 THEN <<0, 1>> ELSE <<r[1] \div g, r[2] \div g>>

RAdd(r, q) == Norm(<<r[1] * q[2] + q[1] * r[2], r[2] * q[2]>>)

RLeq(r, q) == r[1] * q[2] <= q[1] * r[2]

RMax(r, q) == IF RLeq(r, q) THEN q ELSE r

\* a / b; a positive number over zero is Infinity, which is <<1, 0>>
RDiv(a, b) == Norm(<<a, b>>)

RZero == <<0, 1>>

ROne == <<1, 1>>

(* ------------------------------- chunks -------------------------------- *)
NoXhr == [kind |-> "none", readyState |-> 0, status |-> 0]

NoOrphans == [test |-> 0, send |-> 0]

createResumableChunk(fid, size, offset) ==
  [fileObj |-> fid, offset |-> offset, tested |-> FALSE, retries |-> 0,
   pendingRetry |-> FALSE, preprocessState |-> 0, markComplete |-> FALSE,
   loaded |-> 0,
   startByte |-> offset * opt.chunkSize,
   endByte |-> Min(size, (offset + 1) * opt.chunkSize),
   xhr |-> NoXhr,
   timers |-> 0, orphans |-> NoOrphans]

\* a chunk object that nothing refers to any more and that has no callback left
DeadChunk ==
  [fileObj |-> 0, offset |-> 0, tested |-> FALSE, retries |-> 0,
   pendingRetry |-> FALSE, preprocessState |-> 0, markComplete |-> FALSE,
   loaded |-> 0, startByte |-> 0, endByte |-> 0, xhr |-> NoXhr,
   timers |-> 0, orphans |-> NoOrphans]

\* the branch of status() that releases the handle as a side effect
statusAborts(ch) ==
  /\ ~ch.pendingRetry
  /\ ~ch.markComplete
  /\ ch.xhr.kind # "none"
  /\ ch.xhr.readyState = 4
  /\ ch.xhr.status \notin {200, 201}
  /\ ~(ch.xhr.status \in permanentErrors \/ ch.retries >= opt.maxChunkRetries)

\* mutant: the completion mark is looked at before the pending retry
chunk_status_markFirst(ch) ==
  IF ch.markComplete THEN "success"
  ELSE IF ch.pendingRetry THEN "uploading"
  ELSE IF ch.xhr.kind = "none" THEN "pending"
  ELSE IF ch.xhr.readyState < 4 THEN "uploading"
  ELSE IF ch.xhr.status = 200 \/ ch.xhr.status = 201 THEN "success"
  ELSE IF ch.xhr.status \in permanentErrors \/ ch.retries >= opt.maxChunkRetries
       THEN "error"
  ELSE "pending"

chunk_status(ch) ==
  IF ch.pendingRetry THEN "uploading"
  ELSE IF ch.markComplete THEN "success"
  ELSE IF ch.xhr.kind = "none" THEN "pending"
  ELSE IF ch.xhr.readyState < 4 THEN "uploading"
  ELSE IF ch.xhr.status = 200 \/ ch.xhr.status = 201 THEN "success"
  ELSE IF ch.xhr.status \in permanentErrors \/ ch.retries >= opt.maxChunkRetries
       THEN "error"
  ELSE "pending"

chunk_abort(ch) == [ch EXCEPT !.xhr = NoXhr]

\* the chunk as status() leaves it
afterStatus(ch) == IF statusAborts(ch) THEN chunk_abort(ch) ELSE ch

\* this.xhr = new XMLHttpRequest(): a replaced request that is still in
\* flight is not aborted, it stays outstanding with its listeners attached
newXhr(ch, kind) ==
  [ch EXCEPT !.xhr = [kind |-> kind, readyState |-> 1, status |-> 0],
             !.orphans = IF ch.xhr.kind # "none" /\ ch.xhr.readyState < 4
                         THEN [@ EXCEPT ![ch.xhr.kind] = @ + 1]
                         ELSE @]

\* mutant: the probe request is created later, not inside test()
chunk_test_deferred(ch) == ch

chunk_test(ch) == newXhr(ch, "test")

\* requests of the chunk that are outstanding (neither resolved nor aborted)
Outstanding(ch) ==
  (IF ch.xhr.kind # "none" /\ ch.xhr.readyState < 4 THEN 1 ELSE 0)
  + ch.orphans.test + ch.orphans.send

\* mutant: send() does not look at the tested flag
chunk_send_probesAgain(S_, c) ==
  Bind(S_, LAMBDA S :
  LET ch == S.chunks[c] IN
  IF opt.preprocess /\ ch.preprocessState = 0
    THEN [S EXCEPT !.chunks[c].preprocessState = 1]
  ELSE IF opt.preprocess /\ ch.preprocessState = 1
    THEN S
  ELSE IF opt.testChunks /\ ch.xhr.kind # "test"
    THEN [S EXCEPT !.chunks[c] = chunk_test(ch)]
  ELSE [S EXCEPT !.chunks[c] = [newXhr(ch, "send") EXCEPT !.loaded = 0,
                                                         !.pendingRetry = FALSE],
                 !.ev.posted = @ \cup {ch.fileObj}])

chunk_send(S_, c) ==
  Bind(S_, LAMBDA S :
  LET ch == S.chunks[c] IN
  IF opt.preprocess /\ ch.preprocessState = 0
    THEN [S EXCEPT !.chunks[c].preprocessState = 1]
  ELSE IF opt.preprocess /\ ch.preprocessState = 1
    THEN S
  ELSE IF opt.testChunks /\ ~ch.tested
    THEN [S EXCEPT !.chunks[c] = chunk_test(ch)]
  ELSE [S EXCEPT !.chunks[c] = [newXhr(ch, "send") EXCEPT !.loaded = 0,
                                                         !.pendingRetry = FALSE],
                 !.ev.posted = @ \cup {ch.fileObj}])

(* -------------------------------- files -------------------------------- *)
Range(seq) == {seq[i] : i \in 1..Len(seq)}

\* what the regular scan of file.upload() accepts
Claimable(ch) == chunk_status(ch) = "pending" /\ ch.preprocessState # 1

file_isPaused(S, f) == S.fobjs[f].pause

\* mutant: a running pre-send hook of a chunk is not looked at
file_isComplete_noChunkHook(S_, f) ==
  Bind(S_, LAMBDA S :
  LET fo == S.fobjs[f] IN
  /\ fo.preprocessState # 1
  /\ Len(fo.chunks) # 0
  /\ \A i \in 1..Len(fo.chunks) :
        chunk_status(S.chunks[fo.chunks[i]]) = "success")

file_isComplete(S_, f) ==
  Bind(S_, LAMBDA S :
  LET fo == S.fobjs[f] IN
  /\ fo.preprocessState # 1
  /\ Len(fo.chunks) # 0
  /\ \A i \in 1..Len(fo.chunks) :
        /\ chunk_status(S.chunks[fo.chunks[i]]) = "success"
        /\ S.chunks[fo.chunks[i]].preprocessState # 1)

\* the share of one chunk in the sum of file.progress()
chunkShare(ch) ==
  IF chunk_status(ch) = "success" THEN ROne
  ELSE IF chunk_status(ch) = "uploading" /\ ch.loaded > 0
    THEN RDiv(ch.loaded, ch.endByte - ch.startByte)
  ELSE RZero

RECURSIVE completedChunks(_, _)
completedChunks(S_, cids) ==
  Bind(S_, LAMBDA S :
  IF cids = <<>> THEN RZero
  ELSE RAdd(chunkShare(S.chunks[Head(cids)]), completedChunks(S, Tail(cids))))

\* completedChunks / totalChunks, rounded up to 1 above 0.99999
progressRatio(S_, f) ==
  Bind(S_, LAMBDA S :
  LET sum == completedChunks(S, S.fobjs[f].chunks)
      ret == Norm(<<sum[1], sum[2] * Len(S.fobjs[f].chunks)>>)
  IN IF RLeq(ret, <<99999, 100000>>) THEN ret ELSE ROne)

\* mutant: the result is not held at the previous one
file_progress_noMax(S_, f) ==
  Bind(S_, LAMBDA S :
  LET fo == S.fobjs[f] IN
  IF fo.error THEN [s |-> S, r |-> ROne]
  ELSE IF Len(fo.chunks) = 0 THEN [s |-> S, r |-> RZero]
  ELSE LET ret == progressRatio(S, f)
       IN [s |-> [S EXCEPT !.fobjs[f]._prevProgress = ret], r |-> ret])

file_progress(S_, f) ==
  Bind(S_, LAMBDA S :
  LET fo == S.fobjs[f] IN
  IF fo.error THEN [s |-> S, r |-> ROne]
  ELSE IF Len(fo.chunks) = 0 THEN [s |-> S, r |-> RZero]
  ELSE LET ret == RMax(fo._prevProgress, progressRatio(S, f))
       IN [s |-> [S EXCEPT !.fobjs[f]._prevProgress = ret], r |-> ret])

\* abort every chunk of the list that reports 'uploading'
abortUploading(S_, cids) ==
  Bind(S_, LAMBDA S :
  [S EXCEPT !.chunks = [c \in DOMAIN S.chunks |->
        IF c \in Range(cids) /\ chunk_status(S.chunks[c]) = "uploading"
        THEN chunk_abort(S.chunks[c]) ELSE S.chunks[c]]])

file_abort(S_, f) == Bind(S_, LAMBDA S : abortUploading(S, S.fobjs[f].chunks))

\* mutant: an error of a chunk leaves the other requests of the file alone
callback_noAbort(S_, f, event) ==
  Bind(S_, LAMBDA S :
  IF event = "error"
    THEN [S EXCEPT !.fobjs[f].error = TRUE, !.ev.fileError[f] = Sat(@)]
  ELSE IF event = "success"
    THEN IF S.fobjs[f].error THEN S
         ELSE IF file_isComplete(S, f)
              THEN [S EXCEPT !.ev.fileSuccess[f] = Sat(@)]
              ELSE S
  ELSE S)

\* the closure bootstrap() hands to every chunk; `this` is the file object
callback(S_, f, event) ==
  Bind(S_, LAMBDA S :
  IF event = "error"
    THEN LET T == file_abort(S, f) IN
         [T EXCEPT !.fobjs[f].error = TRUE, !.ev.fileError[f] = Sat(@)]
  ELSE IF event = "success"
    THEN IF S.fobjs[f].error THEN S
         ELSE IF file_isComplete(S, f)
              THEN [S EXCEPT !.ev.fileSuccess[f] = Sat(@)]
              ELSE S
  ELSE S)

\* a scheduler call of chunk.send(), logged with the path that made it, with
\* the status of the chunk at the call, with the chunks that were pending
\* and the state of every pre-send hook at the call, with whether the call
\* did anything (a call on a chunk whose pre-send hook is running returns at
\* once) and whether the chunk is claimable afterwards
Dispatch(S_, c, via) ==
  Bind(S_, LAMBDA S :
  LET T == chunk_send(S, c) IN
  [T EXCEPT !.disp = Append(@, [c |-> c, via |-> via,
                                status |-> chunk_status(S.chunks[c]),
                                pending |-> {d \in DOMAIN S.chunks :
                                               /\ S.chunks[d].fileObj # 0
                                               /\ chunk_status(S.chunks[d]) = "pending"},
                                hooks |-> [d \in DOMAIN S.chunks |->
                                             S.chunks[d].preprocessState],
                                claimed |-> T.chunks[c] # S.chunks[c],
                                claimable |-> Claimable(T.chunks[c])])])

\* mutant: the scan takes the claimable chunk of the highest offset
FirstClaimable_highest(S_, f) ==
  Bind(S_, LAMBDA S :
  LET cs == S.fobjs[f].chunks
      I == {i \in 1..Len(cs) : Claimable(S.chunks[cs[i]])}
  IN IF I = {} THEN 0 ELSE cs[CHOOSE i \in I : \A j \in I : i >= j])

FirstClaimable(S_, f) ==
  Bind(S_, LAMBDA S :
  LET cs == S.fobjs[f].chunks
      I == {i \in 1..Len(cs) : Claimable(S.chunks[cs[i]])}
  IN IF I = {} THEN 0 ELSE cs[CHOOSE i \in I : \A j \in I : i <= j])

file_upload(S_, f) ==
  Bind(S_, LAMBDA S :
  LET fo == S.fobjs[f] IN
  IF fo.pause THEN [s |-> S, r |-> FALSE]
  ELSE IF opt.preprocessFile /\ fo.preprocessState = 0
    THEN [s |-> [S EXCEPT !.fobjs[f].preprocessState = 1], r |-> TRUE]
  ELSE IF opt.preprocessFile /\ fo.preprocessState = 1
    THEN [s |-> S, r |-> TRUE]
  ELSE Bind(FirstClaimable(S, f), LAMBDA c :
       IF c = 0 THEN [s |-> S, r |-> FALSE]
       ELSE [s |-> Dispatch(S, c, "scan"), r |-> TRUE]))

(* ------------------------------ scheduler ------------------------------ *)
\* uploadChunk(file, chunkIndex) of the boundary-priority pass, 1-based index
PrioEligible(S_, f, idx) ==
  Bind(S_, LAMBDA S :
  LET cs == S.fobjs[f].chunks IN
  /\ ~file_isPaused(S, f)
  /\ idx >= 1 /\ idx <= Len(cs)
  /\ chunk_status(S.chunks[cs[idx]]) = "pending"
  /\ S.chunks[cs[idx]].preprocessState = 0)

\* candidates of the priority pass in the order the loop tries them
PrioKeys(S_) ==
  Bind(S_, LAMBDA S :
  LET cur == S.filesRef IN
  {<<i, k>> \in (1..Len(cur)) \X {0, 1} :
     LET cs == S.fobjs[cur[i]].chunks IN
     IF k = 0 THEN PrioEligible(S, cur[i], 1)
     ELSE Len(cs) > 1 /\ PrioEligible(S, cur[i], Len(cs))})

\* mutant: every first chunk is tried before any last chunk
KeyLeq_firstsThenLasts(p, q) == p[2] < q[2] \/ (p[2] = q[2] /\ p[1] <= q[1])

KeyLeq(p, q) == p[1] < q[1] \/ (p[1] = q[1] /\ p[2] <= q[2])

\* the candidate the loops reach first
FirstKey(keys) == Bind(keys, LAMBDA K : CHOOSE p \in K : \A q \in K : KeyLeq(p, q))

\* candidates of the stuck-chunk sweep: <<file position, chunk position>>
SweepKeys(S_) ==
  Bind(S_, LAMBDA S :
  LET cur == S.filesRef IN
  {<<i, j>> \in (1..Len(cur)) \X (1..MaxChunkObjs) :
     /\ ~file_isPaused(S, cur[i])
     /\ j <= Len(S.fobjs[cur[i]].chunks)
     /\ LET ch == S.chunks[S.fobjs[cur[i]].chunks[j]] IN
        chunk_status(ch) # "success" /\ ch.xhr.kind = "none"})

\* positions of the files whose upload() returns true
ScanFiles(S_) ==
  Bind(S_, LAMBDA S :
  {i \in 1..Len(S.filesRef) : file_upload(S, S.filesRef[i]).r})

uploadNextChunk(S_) ==
  Bind([S_ EXCEPT !.ev.advances = Sat(@)], LAMBDA S :
  LET cur == S.filesRef IN
  IF Len(cur) = 0 THEN [s |-> S, r |-> FALSE]
  ELSE IF opt.prioritizeFirstAndLastChunk /\ PrioKeys(S) # {}
    THEN Bind(FirstKey(PrioKeys(S)), LAMBDA p :
           LET cs == S.fobjs[cur[p[1]]].chunks
           IN [s |-> Dispatch(S, IF p[2] = 0 THEN cs[1] ELSE cs[Len(cs)],
                              IF p[2] = 0 THEN "first" ELSE "last"),
               r |-> TRUE])
  ELSE IF ScanFiles(S) # {}
    THEN Bind(FirstKey({<<i, 0>> : i \in ScanFiles(S)}), LAMBDA p :
           file_upload(S, cur[p[1]]))
  ELSE IF \A i \in 1..Len(cur) : file_isComplete(S, cur[i])
    THEN [s |-> [S EXCEPT !.ev.complete = Sat(@)], r |-> FALSE]
  ELSE IF SweepKeys(S) # {}
    THEN Bind(FirstKey(SweepKeys(S)), LAMBDA p :
           [s |-> Dispatch(S, S.fobjs[cur[p[1]]].chunks[p[2]], "sweep"),
            r |-> TRUE])
  ELSE [s |-> S, r |-> FALSE])

\* n back-to-back scheduler calls, as in the loops of upload() and retry()
RECURSIVE advance(_, _)
advance(S_, n) == Bind(S_, LAMBDA S : IF n = 0 THEN S ELSE advance(uploadNextChunk(S).s, n - 1))

upload(S) == advance(S, opt.simultaneousUploads)

(* --------------------------- chunk completions ------------------------- *)
\* mutant: a successful probe does not skip the transmission
testHandler_noSkip(S_, c) ==
  Bind(S_, LAMBDA S :
  LET ch0 == [S.chunks[c] EXCEPT !.tested = TRUE]
      S1 == [S EXCEPT !.chunks[c] = afterStatus(ch0)]
  IN chunk_send(S1, c))

\* the listener test() attaches to load, error and timeout
testHandler(S_, c) ==
  Bind(S_, LAMBDA S :
  LET ch0 == [S.chunks[c] EXCEPT !.tested = TRUE]
      st == chunk_status(ch0)
      S1 == [S EXCEPT !.chunks[c] = afterStatus(ch0)]
  IN IF st = "success"
     THEN uploadNextChunk(callback(S1, ch0.fileObj, "success")).s
     ELSE chunk_send(S1, c))

\* the retry arm of doneHandler: abort, count the retry, re-send
retryChunk(S_, c) ==
  Bind(S_, LAMBDA S :
  LET ch == [chunk_abort(S.chunks[c]) EXCEPT !.retries = @ + 1] IN
  IF opt.chunkRetryInterval
  THEN [S EXCEPT !.chunks[c] = [ch EXCEPT !.pendingRetry = TRUE, !.timers = @ + 1]]
  ELSE chunk_send([S EXCEPT !.chunks[c] = ch], c))

\* mutant: a finished chunk does not call the scheduler again
doneHandler_noAdvance(S_, c) ==
  Bind(S_, LAMBDA S :
  LET ch0 == S.chunks[c]
      st == chunk_status(ch0)
      S1 == [S EXCEPT !.chunks[c] = afterStatus(ch0)]
  IN IF st = "success" \/ st = "error"
     THEN callback(S1, ch0.fileObj, st)
     ELSE retryChunk(S1, c))

\* the listener send() attaches to load, error and timeout
doneHandler(S_, c) ==
  Bind(S_, LAMBDA S :
  LET ch0 == S.chunks[c]
      st == chunk_status(ch0)
      S1 == [S EXCEPT !.chunks[c] = afterStatus(ch0)]
  IN IF st = "success" \/ st = "error"
     THEN [callback(S1, ch0.fileObj, st) EXCEPT !.advTimers = @ + 1]
     ELSE retryChunk(S1, c))

handler(S_, c, kind) == Bind(S_, LAMBDA S : IF kind = "test" THEN testHandler(S, c) ELSE doneHandler(S, c))

(* ---------------------------- file operations -------------------------- *)
\* mutant: the lower bound of one chunk is dropped
maxOffset_noFloor(size) ==
  IF opt.forceChunkSize THEN ceil(size, opt.chunkSize)
  ELSE floor(size, opt.chunkSize)

maxOffset(size) ==
  Max(IF opt.forceChunkSize THEN ceil(size, opt.chunkSize)
      ELSE floor(size, opt.chunkSize), 1)

FreeIds(S_) == Bind(S_, LAMBDA S : {c \in DOMAIN S.chunks : S.chunks[c].fileObj = 0})

RECURSIVE Smallest(_, _)
Smallest(ids, n) ==
  IF n = 0 \/ ids = {} THEN <<>>
  ELSE LET m == CHOOSE x \in ids : \A y \in ids : x <= y
       IN <<m>> \o Smallest(ids \ {m}, n - 1)

Referenced(S_, c) == Bind(S_, LAMBDA S : \E f \in 1..Len(S.fobjs) : c \in Range(S.fobjs[f].chunks))

\* a chunk object no list refers to and that has no request, timer or hook
\* left can never act again
Inert(S_, c) ==
  Bind(S_, LAMBDA S :
  LET ch == S.chunks[c] IN
  /\ ~Referenced(S, c)
  /\ ch.timers = 0 /\ ch.orphans = NoOrphans
  /\ ch.preprocessState # 1
  /\ ~(ch.xhr.kind # "none" /\ ch.xhr.readyState < 4))

Collect(S_) ==
  Bind(S_, LAMBDA S :
  [S EXCEPT !.chunks = [c \in DOMAIN S.chunks |->
                          IF Inert(S, c) THEN DeadChunk ELSE S.chunks[c]]])

CanBootstrap(S, f, size) ==
  Cardinality(FreeIds(Collect([file_abort(S, f) EXCEPT !.fobjs[f].chunks = <<>>])))
    >= maxOffset(size)

file_bootstrap(S_, f) ==
  Bind(S_, LAMBDA S :
  LET S1 == Collect([file_abort(S, f) EXCEPT !.fobjs[f].error = FALSE,
                                             !.fobjs[f].chunks = <<>>,
                                             !.fobjs[f]._prevProgress = RZero])
      size == S.fobjs[f].size
      n == maxOffset(size)
      ids == Smallest(FreeIds(S1), n)
  IN [S1 EXCEPT !.fobjs[f].chunks = ids,
                !.chunks = [c \in DOMAIN S1.chunks |->
                   IF \E k \in 1..Len(ids) : ids[k] = c
                   THEN createResumableChunk(f, size,
                           (CHOOSE k \in 1..Len(ids) : ids[k] = c) - 1)
                   ELSE S1.chunks[c]],
                !.ccTimers = @ + 1])

\* file.name: the base name, and the extension after a dot when there is one
fileName(item) ==
  <<item.name>> \o (IF item.ext = <<>> THEN <<>> ELSE <<".">> \o item.ext)

\* size + '-' + the name without the characters outside [0-9a-zA-Z_-]
generateUniqueIdentifier(item) ==
  <<item.size, SelectSeq(fileName(item), LAMBDA ch : ch \notin {".", "/", "*", " "})>>

createResumableFile(S_, item) ==
  Bind(S_, LAMBDA S :
  LET f == Len(S.fobjs) + 1
      fo == [uniqueIdentifier |-> generateUniqueIdentifier(item),
             size |-> item.size, chunks |-> <<>>, preprocessState |-> 0,
             pause |-> FALSE, error |-> FALSE, _prevProgress |-> RZero]
  IN file_bootstrap([S EXCEPT !.fobjs = Append(@, fo)], f))

removeFile(S, f) == [S EXCEPT !.files = SelectSeq(@, LAMBDA g : g # f)]

file_pause(S, f, flag) ==
  LET S1 == [S EXCEPT !.fobjs[f].pause = flag] IN
  IF flag THEN file_abort(S1, f) ELSE uploadNextChunk(S1).s

file_cancel(S_, f) ==
  Bind(S_, LAMBDA S :
  LET cs == S.fobjs[f].chunks
      S1 == abortUploading([S EXCEPT !.fobjs[f].chunks = <<>>], cs)
  IN uploadNextChunk(removeFile(S1, f)).s)

\* file.preprocessFinished(): the pre-upload hook of the file reports back
file_preprocessFinished(S, f) ==
  file_upload([S EXCEPT !.fobjs[f].preprocessState = 2], f).s

\* markChunksCompleted(chunkNumber): nothing when the list is not longer
\* than chunkNumber
file_markChunksCompleted(S_, f, chunkNumber) ==
  Bind(S_, LAMBDA S :
  LET cs == S.fobjs[f].chunks IN
  IF Len(cs) <= chunkNumber THEN S
  ELSE [S EXCEPT !.chunks = [c \in DOMAIN S.chunks |->
          IF \E k \in 1..chunkNumber : cs[k] = c
          THEN [S.chunks[c] EXCEPT !.markComplete = TRUE] ELSE S.chunks[c]]])

\* the chunks isComplete() reads status() of: up to the first one that is
\* not 'success' or whose hook is running; status() may release a handle
isCompleteReads(S_, f) ==
  Bind(S_, LAMBDA S :
  LET cs == S.fobjs[f].chunks
      bad == {i \in 1..Len(cs) :
                \/ chunk_status(S.chunks[cs[i]]) # "success"
                \/ S.chunks[cs[i]].preprocessState = 1}
  IN IF S.fobjs[f].preprocessState = 1 THEN S
     ELSE [S EXCEPT !.chunks = [c \in DOMAIN S.chunks |->
             IF \E i \in 1..Len(cs) :
                  cs[i] = c /\ \A j \in bad : i <= j
             THEN afterStatus(S.chunks[c]) ELSE S.chunks[c]]])

\* mutant: retry() clears the flag and keeps the chunks
file_retry_keepsChunks(S, f) ==
  [S EXCEPT !.fobjs[f].error = FALSE, !.retryL = @ + 1, !.ccTimers = @ + 1]

file_retry(S, f) ==
  [file_bootstrap([S EXCEPT !.fobjs[f].error = FALSE], f) EXCEPT !.retryL = @ + 1]

(* ------------------------------ admission ------------------------------ *)
\* strings are sequences of characters
toLowerCase(str) == [i \in 1..Len(str) |-> IF str[i] = "P" THEN "p" ELSE str[i]]

endsWith(str, suffix) ==
  /\ Len(suffix) <= Len(str)
  /\ SubSeq(str, Len(str) - Len(suffix) + 1, Len(str)) = suffix

startsWith(str, prefix) ==
  /\ Len(prefix) <= Len(str)
  /\ SubSeq(str, 1, Len(prefix)) = prefix

includes(str, ch) == \E i \in 1..Len(str) : str[i] = ch

\* str.split('*')[0]
beforeStar(str) ==
  SubSeq(str, 1, (CHOOSE i \in 1..Len(str) :
                    str[i] = "*" /\ \A j \in 1..(i - 1) : str[j] # "*") - 1)

\* one entry of the allow-list against the file
typeMatches(item, entry) ==
  LET type == toLowerCase(SelectSeq(entry, LAMBDA ch : ch # " "))
      \* type.match(/^[^.][^/]+$/)
      bare == /\ Len(type) >= 2
              /\ type[1] # "."
              /\ \A i \in 2..Len(type) : type[i] # "/"
      extension == (IF bare THEN <<".">> ELSE <<>>) \o type
  IN \/ endsWith(toLowerCase(fileName(item)), extension)
     \/ /\ includes(extension, "/")
        /\ IF includes(extension, "*")
           THEN startsWith(item.type, beforeStar(extension))
           ELSE item.type = extension

\* mutant: the MIME type of the file is not looked at
validateFileType_extensionOnly(item, allowedTypes) ==
  \/ Len(allowedTypes) = 0
  \/ \E k \in 1..Len(allowedTypes) :
        typeMatches([item EXCEPT !.type = <<>>], allowedTypes[k])

validateFileType(item, allowedTypes) ==
  \/ Len(allowedTypes) = 0
  \/ \E k \in 1..Len(allowedTypes) : typeMatches(item, allowedTypes[k])

getFromUniqueIdentifier(S_, uid) ==
  Bind(S_, LAMBDA S :
  LET I == {i \in 1..Len(S.filesRef) :
              S.fobjs[S.filesRef[i]].uniqueIdentifier = uid}
  IN IF I = {} THEN 0 ELSE S.filesRef[CHOOSE i \in I : \A j \in I : i <= j])

\* the body of the per-item function of appendFilesFromFileList
admitItem(S_, item) ==
  Bind(S_, LAMBDA S :
  IF ~validateFileType(item, opt.fileType)
    THEN [S EXCEPT !.ev.fileTypeError = Sat(@)]
  ELSE IF opt.minFileSize # 0 /\ item.size < opt.minFileSize
    THEN [S EXCEPT !.ev.minFileSizeError = Sat(@)]
  ELSE IF opt.maxFileSize # 0 /\ item.size > opt.maxFileSize
    THEN [S EXCEPT !.ev.maxFileSizeError = Sat(@)]
  ELSE IF getFromUniqueIdentifier(S, generateUniqueIdentifier(item)) # 0
    THEN [S EXCEPT !.ev.skipped = Sat(@)]
  ELSE LET T == createResumableFile(S, item) IN
       [T EXCEPT !.files = Append(@, Len(T.fobjs))])

RECURSIVE admitAll(_, _)
admitAll(S_, batch) ==
  Bind(S_, LAMBDA S :
  IF batch = <<>> THEN S ELSE admitAll(admitItem(S, Head(batch)), Tail(batch)))

appendFilesFromFileList(S_, batch) ==
  Bind(S_, LAMBDA S :
  LET cur == S.filesRef
      over == opt.maxFiles # 0 /\ opt.maxFiles < Len(batch) + Len(cur)
      replace == opt.maxFiles = 1 /\ Len(cur) = 1 /\ Len(batch) = 1
  IN IF over /\ ~replace
     THEN [S EXCEPT !.ev.maxFilesError = Sat(@)]
     ELSE LET T == admitAll(IF over THEN removeFile(S, cur[1]) ELSE S, batch)
          IN IF Len(T.fobjs) > Len(S.fobjs) THEN [T EXCEPT !.thens = @ + 1] ELSE T)

(* ------------------------------- server -------------------------------- *)
\* the chunk file uploads/<identifier>/chunk.<chunkNumber>
chunkPath(S, c) ==
  <<S.fobjs[S.chunks[c].fileObj].uniqueIdentifier, S.chunks[c].offset + 1>>

\* mutant: the route looks in the wrong place and never finds the chunk
route_GET_notFound(S, c) == 404

\* GET of the upload route: 200 when the chunk file exists, else 404
route_GET(S, c) == IF chunkPath(S, c) \in S.uploads THEN 200 ELSE 404

\* POST of the upload route: the chunk file is written, and the route takes
\* the file for received when chunkNumber === totalChunks; totalChunks is
\* the length of the chunk list the client sends with every chunk
route_POST(S, c) ==
  LET T == [S EXCEPT !.uploads = @ \cup {chunkPath(S, c)}]
      fo == S.fobjs[S.chunks[c].fileObj]
  IN IF S.chunks[c].offset + 1 = Len(fo.chunks)
     THEN [T EXCEPT !.ev.received = @ \cup {fo.uniqueIdentifier}]
     ELSE T

(* ------------------------------- state --------------------------------- *)
\* ev and disp log what the current step emitted and dispatched, the file
\* list an addFiles call of the step was given, what the call of the step
\* returned to its caller, how many scheduler calls the step made, and the
\* identifiers of the files the upload route took for received in the step
NoEvents ==
  [posted |-> {}, fileSuccess |-> [f \in 1..MaxFileObjs |-> 0],
   fileError |-> [f \in 1..MaxFileObjs |-> 0], complete |-> 0,
   maxFilesError |-> 0, fileTypeError |-> 0, minFileSizeError |-> 0,
   maxFileSizeError |-> 0, skipped |-> 0, batch |-> <<>>,
   returned |-> <<>>, advances |-> 0, received |-> {}]

Heap ==
  [fobjs |-> fobjs, chunks |-> chunks, files |-> files, filesRef |-> filesRef,
   thens |-> thens, advTimers |-> advTimers, ccTimers |-> ccTimers,
   retryL |-> retryL, shown |-> shown, ev |-> NoEvents, disp |-> <<>>,
   uploads |-> uploads, queuePause |-> queuePause]

\* counters that the program does not bound are bounded here
Bounded(S_) ==
  Bind(S_, LAMBDA S :
  /\ S.thens <= MaxPending
  /\ S.advTimers <= MaxPending
  /\ S.ccTimers <= MaxPending
  /\ S.retryL <= MaxPending
  /\ Cardinality({c \in DOMAIN S.chunks :
                    S.chunks[c].fileObj # 0 /\ ~Referenced(S, c)}) <= MaxZombies
  /\ \A c \in DOMAIN S.chunks :
        /\ S.chunks[c].retries <= RetryCap
        /\ S.chunks[c].timers <= MaxPending
        /\ S.chunks[c].orphans.test + S.chunks[c].orphans.send <= MaxPending)

Install(S0) ==
  \E S \in {Collect(S0)} :
  /\ Bounded(S)
  /\ fobjs' = S.fobjs
  /\ chunks' = S.chunks
  /\ files' = S.files
  /\ filesRef' = S.filesRef
  /\ thens' = S.thens
  /\ advTimers' = S.advTimers
  /\ ccTimers' = S.ccTimers
  /\ retryL' = S.retryL
  /\ shown' = S.shown
  /\ ev' = S.ev
  /\ disp' = S.disp
  /\ uploads' = S.uploads
  /\ queuePause' = S.queuePause
  /\ opt' = opt

InitWith(options) ==
  /\ opt \in options
  /\ fobjs = <<>>
  /\ chunks = [c \in 1..MaxChunkObjs |-> DeadChunk]
  /\ files = <<>>
  /\ filesRef = <<>>
  /\ thens = 0
  /\ advTimers = 0
  /\ ccTimers = 0
  /\ retryL = 0
  /\ shown = [f \in 1..MaxFileObjs |-> <<>>]
  /\ ev = NoEvents
  /\ disp = <<>>
  /\ uploads = {}
  /\ queuePause = FALSE

(* ------------------------------- actions ------------------------------- *)
\* addFile / addFiles: the synchronous part of appendFilesFromFileList
AddFiles(batch) ==
  \E T \in {appendFilesFromFileList(Heap, batch)} :
  /\ Len(T.fobjs) <= MaxFileObjs
  /\ \A f \in 1..Len(T.fobjs) :
        f > Len(fobjs) => Len(T.fobjs[f].chunks) = maxOffset(T.fobjs[f].size)
  /\ Install([T EXCEPT !.ev.batch = batch])

\* the effect that copies the files state into filesRef.current
SyncFilesRef ==
  /\ filesRef # files
  /\ Install([Heap EXCEPT !.filesRef = files])

\* the continuation of Promise.all in appendFilesFromFileList
UploadThen ==
  /\ thens > 0
  /\ Install(upload([Heap EXCEPT !.thens = @ - 1]))

\* the hook's public upload()
Upload ==
  /\ Len(files) > 0
  /\ Install(upload(Heap))

Pause(f) ==
  /\ f \in Range(files)
  /\ ~fobjs[f].pause
  /\ Install(file_pause(Heap, f, TRUE))

Resume(f) ==
  /\ f \in Range(files)
  /\ fobjs[f].pause
  /\ Install(file_pause(Heap, f, FALSE))

\* the file's public abort()
Abort(f) ==
  /\ f \in Range(files)
  /\ \E c \in Range(fobjs[f].chunks) : chunk_status(chunks[c]) = "uploading"
  /\ Install(file_abort(Heap, f))

\* a reader (the queue row of the UI) calls file.progress(); shown keeps the
\* value it got
ProgressCall(f) ==
  /\ f \in 1..Len(fobjs)
  /\ LET p == file_progress(Heap, f) IN
     /\ p.r # shown[f]
     /\ Install([p.s EXCEPT !.shown[f] = p.r])

Cancel(f) ==
  /\ f \in Range(files)
  /\ Install(file_cancel(Heap, f))

Retry(f) ==
  /\ f \in Range(files)
  /\ fobjs[f].error
  /\ CanBootstrap(Heap, f, fobjs[f].size)
  /\ Install(file_retry(Heap, f))

\* the setTimeout(0) of bootstrap(): chunkingComplete runs the listeners
\* that retry() registered and that have not run yet
ChunkingComplete ==
  /\ thens = 0
  /\ ccTimers > 0
  /\ Install(advance([Heap EXCEPT !.ccTimers = @ - 1, !.retryL = 0],
                     retryL * opt.simultaneousUploads))

\* an upload progress event of a transmission of the chunk: loaded = e.loaded,
\* the bytes of the request body sent so far (the body is the chunk plus the
\* form fields); events of one request come in increasing order
XhrProgress(c, n) ==
  /\ thens = 0
  /\ \/ /\ chunks[c].xhr.kind = "send" /\ chunks[c].xhr.readyState < 4
        /\ chunks[c].orphans.send = 0
        /\ n > chunks[c].loaded
     \/ /\ chunks[c].orphans.send > 0
        /\ n # chunks[c].loaded
  /\ Install([Heap EXCEPT !.chunks[c].loaded = n])

\* load, error or timeout of the request the chunk holds
XhrDone(c, code) ==
  /\ thens = 0
  /\ chunks[c].xhr.kind # "none"
  /\ chunks[c].xhr.readyState < 4
  /\ Install(handler([Heap EXCEPT !.chunks[c].xhr.readyState = 4,
                                  !.chunks[c].xhr.status = code],
                     c, chunks[c].xhr.kind))

\* the server answers the probe the chunk holds
ProbeServed(c) ==
  /\ thens = 0
  /\ chunks[c].xhr.kind = "test"
  /\ chunks[c].xhr.readyState < 4
  /\ Install(handler([Heap EXCEPT !.chunks[c].xhr.readyState = 4,
                                  !.chunks[c].xhr.status = route_GET(Heap, c)],
                     c, "test"))

\* the server stores the transmission the chunk holds and answers 200
PostServed(c) ==
  /\ thens = 0
  /\ chunks[c].xhr.kind = "send"
  /\ chunks[c].xhr.readyState < 4
  /\ Install(handler([route_POST(Heap, c) EXCEPT
                        !.chunks[c].xhr.readyState = 4,
                        !.chunks[c].xhr.status = 200],
                     c, "send"))

\* load, error or timeout of a request the chunk no longer holds
OrphanDone(c, kind) ==
  /\ thens = 0
  /\ chunks[c].orphans[kind] > 0
  /\ Install(handler([Heap EXCEPT !.chunks[c].orphans[kind] = @ - 1], c, kind))

\* mutant: completion is reported for a hook that was never started
PreprocessFinished_notStarted(c) ==
  /\ thens = 0
  /\ opt.preprocess
  /\ chunks[c].fileObj # 0
  /\ chunks[c].preprocessState < 2
  /\ Install(chunk_send([Heap EXCEPT !.chunks[c].preprocessState = 2], c))

\* the pre-send hook reports back: chunk.preprocessFinished()
PreprocessFinished(c) ==
  /\ thens = 0
  /\ chunks[c].preprocessState = 1
  /\ Install(chunk_send([Heap EXCEPT !.chunks[c].preprocessState = 2], c))

\* the setTimeout(() => this.send(), retryInterval) of doneHandler
RetryTimer(c) ==
  /\ thens = 0
  /\ chunks[c].timers > 0
  /\ Install(chunk_send([Heap EXCEPT !.chunks[c].timers = @ - 1], c))

\* a caller reads file.isComplete()
IsCompleteCall(f) ==
  /\ f \in 1..Len(fobjs)
  /\ Install([isCompleteReads(Heap, f) EXCEPT
                !.ev.returned = <<file_isComplete(Heap, f)>>])

\* the pre-upload hook of the file reports back: file.preprocessFinished()
FilePreprocessFinished(f) ==
  /\ thens = 0
  /\ f \in 1..Len(fobjs)
  /\ fobjs[f].preprocessState = 1
  /\ Install(file_preprocessFinished(Heap, f))

\* a caller marks the first n chunks of the file as stored already
MarkChunksCompleted(f, n) ==
  /\ f \in 1..Len(fobjs)
  /\ n < Len(fobjs[f].chunks)
  /\ \E k \in 1..n : ~chunks[fobjs[f].chunks[k]].markComplete
  /\ Install(file_markChunksCompleted(Heap, f, n))

\* the caller calls pause() on the hook's result, as UploaderHookResult
\* declares it; the object the hook returns has no such member, the call
\* throws and nothing of the uploader changes
QueuePause ==
  /\ ~queuePause
  /\ Install([Heap EXCEPT !.queuePause = TRUE,
                          !.ev.returned = <<"TypeError">>])

\* a caller reads chunk.status()
StatusCall(c) ==
  /\ chunks[c].fileObj # 0
  /\ Install([Heap EXCEPT !.chunks[c] = afterStatus(chunks[c]),
                          !.ev.returned = <<chunk_status(chunks[c])>>])

\* the setTimeout(uploadNextChunk, 50) of doneHandler
AdvanceTimer ==
  /\ thens = 0
  /\ advTimers > 0
  /\ Install(uploadNextChunk([Heap EXCEPT !.advTimers = @ - 1]).s)

(* ---------------------------- specifications --------------------------- *)
BaseOpt ==
  [chunkSize |-> 2, forceChunkSize |-> FALSE, simultaneousUploads |-> 2,
   testChunks |-> TRUE, prioritizeFirstAndLastChunk |-> FALSE,
   maxChunkRetries |-> 1, chunkRetryInterval |-> TRUE, maxFiles |-> 0,
   minFileSize |-> 0, maxFileSize |-> 0, fileType |-> <<>>,
   preprocess |-> FALSE, preprocessFile |-> FALSE]

\* MIME types and extensions
TextPlain == <<"t", "/", "p">>

ImagePng == <<"i", "/", "p">>

\* a file without extension, of type text/plain
PlainFile(name, size) == [size |-> size, name |-> name, ext |-> <<>>, type |-> TextPlain]


Batches(items) == {<<i>> : i \in items} \cup {<<i, j>> : i \in items, j \in items}

\* partitioning: one file of every size under every chunk size and rounding
\* policy, probed and found on the receiver
InitPartition ==
  InitWith({[BaseOpt EXCEPT !.chunkSize = cs, !.forceChunkSize = fc] :
              cs \in 1..MaxChunkSize, fc \in BOOLEAN})

NextPartition ==
  \/ /\ fobjs = <<>>
     /\ \E n \in 0..MaxSize :
          AddFiles(<<PlainFile("a", n)>>)
  \/ SyncFilesRef
  \/ UploadThen
  \/ \E c \in 1..MaxChunkObjs : XhrDone(c, 200)

SpecPartition == InitPartition /\ [][NextPartition]_vars

\* admission: files of every size added one at a time, with and without a
\* file-count ceiling of one
InitBoot == InitWith({[BaseOpt EXCEPT !.maxFiles = mf] : mf \in 0..1})

NextBoot ==
  \/ \E n \in 0..MaxSize : AddFiles(<<PlainFile("a", n)>>)
  \/ SyncFilesRef
  \/ UploadThen

SpecBoot == InitBoot /\ [][NextBoot]_vars

\* one file of two chunks: transport failures, retries, repeated upload()
File5 == PlainFile("a", 5)

File3 == PlainFile("b", 3)

\* an empty file: one chunk of no bytes
File0 == PlainFile("a", 0)

Init ==
  InitWith({[BaseOpt EXCEPT !.simultaneousUploads = n, !.preprocess = p] :
              n \in 1..2, p \in BOOLEAN})

Next ==
  \/ fobjs = <<>> /\ AddFiles(<<File5>>)
  \/ SyncFilesRef
  \/ UploadThen
  \/ Upload
  \/ \E c \in 1..MaxChunkObjs, code \in Codes : XhrDone(c, code)
  \/ \E c \in 1..MaxChunkObjs, kind \in {"test", "send"} : OrphanDone(c, kind)
  \/ \E c \in 1..MaxChunkObjs : RetryTimer(c)
  \/ \E c \in 1..MaxChunkObjs : PreprocessFinished(c)
  \/ AdvanceTimer

Spec == Init /\ [][Next]_vars

\* progress of one file under pause, resume, abort, progress events (half of
\* a chunk, and more than the chunk: the request body is longer than the
\* chunk) and completions, read at any moment; two chunks in parallel with
\* no retry, two chunks one after the other with an immediate retry, one
\* chunk (of two bytes, or of none) with a delayed retry
InitProgress ==
  InitWith({[BaseOpt EXCEPT !.testChunks = FALSE, !.maxChunkRetries = 0],
            [BaseOpt EXCEPT !.testChunks = FALSE, !.simultaneousUploads = 1,
                            !.chunkRetryInterval = FALSE],
            [BaseOpt EXCEPT !.testChunks = FALSE, !.simultaneousUploads = 1]})

NextProgress ==
  \/ /\ fobjs = <<>>
     /\ \E item \in IF opt.chunkRetryInterval /\ opt.maxChunkRetries > 0
                      THEN {File3, File0} ELSE {File5} :
          AddFiles(<<item>>)
  \/ SyncFilesRef
  \/ UploadThen
  \/ Pause(1)
  \/ Resume(1)
  \/ Abort(1)
  \/ ProgressCall(1)
  \/ \E c \in 1..MaxChunkObjs, n \in {1, MaxLoaded} : XhrProgress(c, n)
  \/ \E c \in 1..MaxChunkObjs, code \in Codes : XhrDone(c, code)
  \/ \E c \in 1..MaxChunkObjs, kind \in {"test", "send"} : OrphanDone(c, kind)
  \/ \E c \in 1..MaxChunkObjs : RetryTimer(c)
  \/ AdvanceTimer

SpecProgress == InitProgress /\ [][NextProgress]_vars

\* two files, one transmission at a time, every one succeeds; either file
\* may be cancelled at any moment
InitCancel ==
  InitWith({[BaseOpt EXCEPT !.simultaneousUploads = 1, !.testChunks = FALSE]})

NextCancel ==
  \/ \E item \in {File5, File3} : AddFiles(<<item>>)
  \/ SyncFilesRef
  \/ UploadThen
  \/ \E f \in 1..MaxFileObjs : Cancel(f)
  \/ \E c \in 1..MaxChunkObjs : XhrDone(c, 200)
  \/ AdvanceTimer

SpecCancel == InitCancel /\ [][NextCancel]_vars

\* test-before-send with a receiver that already holds every chunk: every
\* probe answers 200.  The event loop runs every pending continuation and
\* effect, and every request resolves.
InitProbe ==
  InitWith({[BaseOpt EXCEPT !.simultaneousUploads = n, !.chunkSize = cs,
                            !.prioritizeFirstAndLastChunk = TRUE] :
              n \in 1..2, cs \in 1..2})

NextProbe ==
  \/ \E item \in {File5, File3} : AddFiles(<<item>>)
  \/ SyncFilesRef
  \/ UploadThen
  \/ \E c \in 1..MaxChunkObjs : XhrDone(c, 200)

SpecProbe ==
  /\ InitProbe
  /\ [][NextProbe]_vars
  /\ WF_vars(SyncFilesRef)
  /\ WF_vars(UploadThen)
  /\ WF_vars(\E c \in 1..MaxChunkObjs : XhrDone(c, 200))

\* status() on a chunk with any combination of attributes: flags, retry
\* count and retry limit, no request or a request in any ready state with a
\* success, permanent-error, transient-error or absent status code
StatusCodes == {0, 200, 201, 404, 500, 503}

XhrStates ==
  {NoXhr} \cup [kind : {"test", "send"}, readyState : 1..4, status : StatusCodes]

InitStatus ==
  /\ opt \in {[BaseOpt EXCEPT !.maxChunkRetries = m] : m \in 0..RetryCap}
  /\ fobjs = <<[uniqueIdentifier |-> generateUniqueIdentifier(File3),
                size |-> File3.size, chunks |-> <<1>>, preprocessState |-> 0,
                pause |-> FALSE, error |-> FALSE, _prevProgress |-> RZero]>>
  /\ chunks \in {[c \in 1..MaxChunkObjs |->
                    IF c = 1
                    THEN [createResumableChunk(1, File3.size, 0) EXCEPT
                            !.pendingRetry = pr, !.markComplete = mc,
                            !.retries = r, !.xhr = x]
                    ELSE DeadChunk] :
                  pr \in BOOLEAN, mc \in BOOLEAN, r \in 0..RetryCap,
                  x \in XhrStates}
  /\ files = <<1>>
  /\ filesRef = <<1>>
  /\ thens = 0
  /\ advTimers = 0
  /\ ccTimers = 0
  /\ retryL = 0
  /\ shown = [f \in 1..MaxFileObjs |-> <<>>]
  /\ ev = NoEvents
  /\ disp = <<>>
  /\ uploads = {}
  /\ queuePause = FALSE

NextStatus == \E c \in 1..MaxChunkObjs : StatusCall(c)

SpecStatus == InitStatus /\ [][NextStatus]_vars

\* completion of one file of two chunks, with and without a pre-upload hook
\* of the file and a pre-send hook of the chunks; transmissions succeed or
\* fail for good, the caller may mark the first chunk as stored, cancel the
\* file and read isComplete() at any moment
InitComplete ==
  InitWith({[BaseOpt EXCEPT !.testChunks = FALSE, !.maxChunkRetries = 0,
                            !.preprocess = p, !.preprocessFile = pf] :
              p \in BOOLEAN, pf \in BOOLEAN})

NextComplete ==
  \/ fobjs = <<>> /\ AddFiles(<<File5>>)
  \/ SyncFilesRef
  \/ UploadThen
  \/ FilePreprocessFinished(1)
  \/ \E c \in 1..MaxChunkObjs : PreprocessFinished(c)
  \/ MarkChunksCompleted(1, 1)
  \/ Cancel(1)
  \/ IsCompleteCall(1)
  \/ \E c \in 1..MaxChunkObjs, code \in {200, 404} : XhrDone(c, code)
  \/ AdvanceTimer

SpecComplete == InitComplete /\ [][NextComplete]_vars

\* client and server: probes are answered from the upload directory,
\* transmissions are stored, any request may fail on the way (503) or in
\* the route (500) and a failed transmission is repeated at once (no retry
\* interval, as by default); a file may be cancelled and added again
InitResume == InitWith({[BaseOpt EXCEPT !.chunkRetryInterval = FALSE]})

NextResume ==
  \/ files = <<>> /\ filesRef = <<>> /\ AddFiles(<<File5>>)
  \/ SyncFilesRef
  \/ UploadThen
  \/ \E f \in 1..MaxFileObjs : Cancel(f)
  \/ \E c \in 1..MaxChunkObjs : ProbeServed(c)
  \/ \E c \in 1..MaxChunkObjs : PostServed(c)
  \/ \E c \in 1..MaxChunkObjs, code \in {500, 503} : XhrDone(c, code)
  \/ AdvanceTimer

SpecResume == InitResume /\ [][NextResume]_vars

\* one file, one or two transmissions at a time, transmissions succeed or
\* fail on the way and are retried after the retry interval; the file may
\* be cancelled at any moment
InitCancelRetry ==
  InitWith({[BaseOpt EXCEPT !.simultaneousUploads = n, !.testChunks = FALSE] :
              n \in 1..2})

NextCancelRetry ==
  \/ fobjs = <<>> /\ AddFiles(<<File5>>)
  \/ SyncFilesRef
  \/ UploadThen
  \/ Cancel(1)
  \/ \E c \in 1..MaxChunkObjs, code \in {200, 503} : XhrDone(c, code)
  \/ \E c \in 1..MaxChunkObjs : RetryTimer(c)
  \/ AdvanceTimer

SpecCancelRetry == InitCancelRetry /\ [][NextCancelRetry]_vars

\* pausing: one file, paused and resumed by its own pause(), and the
\* queue-level pause() asked for at any moment; transmissions succeed
InitPause == InitWith({[BaseOpt EXCEPT !.testChunks = FALSE, !.simultaneousUploads = n] :
                         n \in 1..2})

NextPause ==
  \/ fobjs = <<>> /\ AddFiles(<<File5>>)
  \/ SyncFilesRef
  \/ UploadThen
  \/ Upload
  \/ Pause(1)
  \/ Resume(1)
  \/ QueuePause
  \/ \E c \in 1..MaxChunkObjs : XhrDone(c, 200)
  \/ AdvanceTimer

SpecPause == InitPause /\ [][NextPause]_vars

\* admission checks: allow-lists by extension (bare, dotted, upper case with
\* a space), by MIME type and by MIME wildcard; size limits; a ceiling of
\* two files; batches of one or two files out of five
Png == <<"p", "n">>

AllowLists ==
  {<<>>, <<Png>>, <<<<".", "p", "n">>>>, <<<<"P", "n", " ">>>>,
   <<<<"i", "/", "*">>>>, <<ImagePng, <<"t", "x">>>>}

AdmitItems ==
  {[size |-> 1, name |-> "a", ext |-> Png, type |-> ImagePng],
   [size |-> 3, name |-> "a", ext |-> Png, type |-> ImagePng],
   [size |-> 3, name |-> "b", ext |-> <<"P", "n">>, type |-> <<>>],
   [size |-> 1, name |-> "a", ext |-> <<>>, type |-> TextPlain],
   [size |-> 3, name |-> "b", ext |-> <<>>, type |-> TextPlain]}

AdmitOpt(ft, mf, lo, hi) ==
  [BaseOpt EXCEPT !.chunkSize = 3, !.fileType = ft, !.maxFiles = mf,
                  !.minFileSize = lo, !.maxFileSize = hi]

InitAdmit ==
  InitWith({AdmitOpt(ft, 0, 0, 0) : ft \in AllowLists}
           \cup {AdmitOpt(<<>>, 0, 2, 0), AdmitOpt(<<>>, 0, 0, 2),
                  AdmitOpt(<<>>, 1, 0, 0), AdmitOpt(<<>>, 2, 0, 0),
                  AdmitOpt(<<Png>>, 2, 2, 0)})

NextAdmit ==
  \/ /\ Len(fobjs) <= 1
     /\ \E batch \in Batches(AdmitItems) : AddFiles(batch)
  \/ SyncFilesRef
  \/ UploadThen
  \/ \E c \in 1..MaxChunkObjs : XhrDone(c, 200)

SpecAdmit == InitAdmit /\ [][NextAdmit]_vars

\* boundary priority: a file of three chunks and then a file of two, added
\* at any moment; two transmissions at a time, or one at a time with a
\* pre-send hook; either file may be paused and resumed; transmissions
\* succeed
FileA3 == PlainFile("a", 3)

FileB2 == PlainFile("b", 2)

InitPriority ==
  InitWith({[BaseOpt EXCEPT !.chunkSize = 1, !.testChunks = FALSE,
                            !.prioritizeFirstAndLastChunk = TRUE,
                            !.simultaneousUploads = n, !.preprocess = (n = 1)] :
              n \in 1..2})

NextPriority ==
  \/ fobjs = <<>> /\ AddFiles(<<FileA3>>)
  \/ Len(fobjs) = 1 /\ AddFiles(<<FileB2>>)
  \/ SyncFilesRef
  \/ UploadThen
  \/ \E f \in 1..MaxFileObjs : Pause(f)
  \/ \E f \in 1..MaxFileObjs : Resume(f)
  \/ \E c \in 1..MaxChunkObjs : PreprocessFinished(c)
  \/ \E c \in 1..MaxChunkObjs : XhrDone(c, 200)
  \/ AdvanceTimer

SpecPriority == InitPriority /\ [][NextPriority]_vars

\* regular scan: the same files and steps with boundary priority off
InitScan ==
  InitWith({[BaseOpt EXCEPT !.chunkSize = 1, !.testChunks = FALSE,
                            !.simultaneousUploads = n, !.preprocess = (n = 1)] :
              n \in 1..2})

SpecScan == InitScan /\ [][NextPriority]_vars

\* test-before-send with probes and transmissions that succeed, fail for
\* good, fail on the way or do not arrive (network error or timeout, status
\* code 0): no retry, one immediate retry (no retry
\* interval, as by default) or one retry after the retry interval; the file
\* may be paused and resumed
InitTest ==
  InitWith({[BaseOpt EXCEPT !.maxChunkRetries = 0, !.chunkRetryInterval = FALSE],
            [BaseOpt EXCEPT !.chunkRetryInterval = FALSE],
            BaseOpt})

NextTest ==
  \/ fobjs = <<>> /\ AddFiles(<<File5>>)
  \/ SyncFilesRef
  \/ UploadThen
  \/ Pause(1)
  \/ Resume(1)
  \/ \E c \in 1..MaxChunkObjs, code \in Codes \cup {0} : XhrDone(c, code)
  \/ \E c \in 1..MaxChunkObjs, kind \in {"test", "send"} : OrphanDone(c, kind)
  \/ \E c \in 1..MaxChunkObjs : RetryTimer(c)
  \/ AdvanceTimer

SpecTest == InitTest /\ [][NextTest]_vars

\* the same steps with two retries allowed, after the retry interval
InitRetries == InitWith({[BaseOpt EXCEPT !.maxChunkRetries = 2]})

SpecRetries == InitRetries /\ [][NextTest]_vars

\* retry(): one file of two chunks, one or two transmissions at a time that
\* succeed or fail for good; progress is read at any moment; the file is
\* retried once it is in error
InitRetry ==
  InitWith({[BaseOpt EXCEPT !.testChunks = FALSE, !.maxChunkRetries = 0,
                            !.chunkRetryInterval = FALSE,
                            !.simultaneousUploads = n] : n \in 1..2})

NextRetry ==
  \/ fobjs = <<>> /\ AddFiles(<<File5>>)
  \/ SyncFilesRef
  \/ UploadThen
  \/ Retry(1)
  \/ ChunkingComplete
  \/ ProgressCall(1)
  \/ \E c \in 1..MaxChunkObjs, code \in {200, 404} : XhrDone(c, code)
  \/ AdvanceTimer

SpecRetry == InitRetry /\ [][NextRetry]_vars

\* client and server, one file of three chunks: probes are answered from
\* the upload directory and transmissions are stored, with one or two
\* requests at a time, with and without the boundary-priority pass
InitReceive ==
  InitWith({[BaseOpt EXCEPT !.chunkSize = 1, !.simultaneousUploads = n,
                            !.prioritizeFirstAndLastChunk = p] :
              n \in 1..2, p \in BOOLEAN})

NextReceive ==
  \/ fobjs = <<>> /\ AddFiles(<<FileA3>>)
  \/ SyncFilesRef
  \/ UploadThen
  \/ \E c \in 1..MaxChunkObjs : ProbeServed(c)
  \/ \E c \in 1..MaxChunkObjs : PostServed(c)
  \/ AdvanceTimer

SpecReceive == InitReceive /\ [][NextReceive]_vars

\* a run to completion: one batch of one or two files, no pause and no
\* cancel, no permanent error; a probe or a transmission may fail on the
\* way (503) while its chunk stays below the retry limit afterwards.  The event loop
\* runs every effect, continuation and timer, and every request resolves.
InitLive ==
  InitWith({[BaseOpt EXCEPT !.testChunks = t, !.maxChunkRetries = 2,
                            !.simultaneousUploads = n, !.chunkRetryInterval = ri] :
              t \in BOOLEAN, n \in 1..2, ri \in BOOLEAN})

NextLive ==
  \/ fobjs = <<>> /\ \E batch \in {<<File5>>, <<File5, File3>>} : AddFiles(batch)
  \/ SyncFilesRef
  \/ UploadThen
  \/ \E c \in 1..MaxChunkObjs : XhrDone(c, 200)
  \/ \E c \in 1..MaxChunkObjs :
       chunks[c].retries + 1 < opt.maxChunkRetries /\ XhrDone(c, 503)
  \/ \E c \in 1..MaxChunkObjs : OrphanDone(c, "send")
  \/ \E c \in 1..MaxChunkObjs : RetryTimer(c)
  \/ AdvanceTimer

SpecLive ==
  /\ InitLive
  /\ [][NextLive]_vars
  /\ WF_vars(SyncFilesRef)
  /\ WF_vars(UploadThen)
  /\ WF_vars(AdvanceTimer)
  /\ \A c \in 1..MaxChunkObjs :
       /\ WF_vars(XhrDone(c, 200) \/ XhrDone(c, 503))
       /\ WF_vars(OrphanDone(c, "send"))
       /\ WF_vars(RetryTimer(c))

\* a pre-upload hook of the file: one file of three chunks, with and
\* without the boundary-priority pass, one or two requests at a time; the
\* hook reports back at any moment, transmissions succeed
InitFileHook ==
  InitWith({[BaseOpt EXCEPT !.chunkSize = 1, !.testChunks = FALSE,
                            !.preprocessFile = TRUE, !.simultaneousUploads = n,
                            !.prioritizeFirstAndLastChunk = p] :
              n \in 1..2, p \in BOOLEAN})

NextFileHook ==
  \/ fobjs = <<>> /\ AddFiles(<<FileA3>>)
  \/ SyncFilesRef
  \/ UploadThen
  \/ Upload
  \/ Pause(1)
  \/ Resume(1)
  \/ FilePreprocessFinished(1)
  \/ \E c \in 1..MaxChunkObjs : XhrDone(c, 200)
  \/ AdvanceTimer

SpecFileHook == InitFileHook /\ [][NextFileHook]_vars

(* -------------------------------- claims ------------------------------- *)
ChunkOf(f, i) == chunks[fobjs[f].chunks[i]]

NChunks(f) == Len(fobjs[f].chunks)

\* C1: after bootstrap the chunks of a file of size >= 1 partition [0, size):
\* the first chunk starts at byte 0, every chunk starts where the previous
\* one ends, and the last chunk ends at size.
C1_ChunksPartitionFile ==
  \A f \in 1..Len(fobjs) :
    (fobjs[f].size >= 1 /\ NChunks(f) >= 1) =>
      /\ ChunkOf(f, 1).startByte = 0
      /\ \A i \in 1..(NChunks(f) - 1) :
            ChunkOf(f, i + 1).startByte = ChunkOf(f, i).endByte
      /\ ChunkOf(f, NChunks(f)).endByte = fobjs[f].size

\* C2 as stated: bootstrap creates ceil(size / chunkSize) chunks with
\* forceChunkSize and max(floor(size / chunkSize), 1) chunks without.
C2_ChunkCountAsStated ==
  \A f \in 1..Len(fobjs) :
    NChunks(f) = IF opt.forceChunkSize
                 THEN (fobjs[f].size + opt.chunkSize - 1) \div opt.chunkSize
                 ELSE IF fobjs[f].size \div opt.chunkSize >= 1
                      THEN fobjs[f].size \div opt.chunkSize ELSE 1

\* C2 amended: bootstrap creates max(ceil(size / chunkSize), 1) chunks with
\* forceChunkSize and max(floor(size / chunkSize), 1) chunks without, never
\* zero; with forceChunkSize a file of 2.5 chunk sizes gets 3 chunks, the
\* last one covering [2 chunkSize, size).
C2_ChunkCount ==
  \A f \in 1..Len(fobjs) :
    LET q == IF opt.forceChunkSize
             THEN (fobjs[f].size + opt.chunkSize - 1) \div opt.chunkSize
             ELSE fobjs[f].size \div opt.chunkSize
    IN /\ NChunks(f) = IF q >= 1 THEN q ELSE 1
       /\ NChunks(f) >= 1
       /\ (opt.forceChunkSize /\ 2 * fobjs[f].size = 5 * opt.chunkSize) =>
             /\ NChunks(f) = 3
             /\ ChunkOf(f, 3).startByte = 2 * opt.chunkSize
             /\ ChunkOf(f, 3).endByte = fobjs[f].size

C2_Witness ==
  \E f \in 1..Len(fobjs) :
    /\ opt.forceChunkSize
    /\ 2 * fobjs[f].size = 5 * opt.chunkSize
    /\ NChunks(f) = 3

\* files the hook tracks: the files state
Tracked == Range(files)

UploadingChunks ==
  {c \in 1..MaxChunkObjs :
     /\ \E f \in Tracked : c \in Range(fobjs[f].chunks)
     /\ chunk_status(chunks[c]) = "uploading"}

\* C3: at most simultaneousUploads chunks of the tracked files report
\* 'uploading' in any reachable state.
C3_AtMostNUploading == Cardinality(UploadingChunks) <= opt.simultaneousUploads

\* C4: a chunk never has two transport requests outstanding.
C4_OneRequestPerChunk ==
  \A c \in 1..MaxChunkObjs : Outstanding(chunks[c]) <= 1

\* C5: a chunk that an advance call dispatches is not claimable when the
\* call returns (its status has left 'pending' or its pre-send hook is
\* marked running), and the advance calls of one step, the N back-to-back
\* calls of upload() included, never claim the same chunk twice.
C5_DispatchClaimsSynchronously ==
  /\ \A i \in 1..Len(disp) : ~disp[i].claimable
  /\ \A i, j \in 1..Len(disp) :
        (i < j /\ disp[i].claimed /\ disp[j].claimed) => disp[i].c # disp[j].c

C5_Witness ==
  /\ Len(disp) = 2
  /\ disp[1].claimed /\ disp[2].claimed
  /\ disp[1].c # disp[2].c
  /\ chunks[disp[1].c].fileObj = chunks[disp[2].c].fileObj

\* C6: the retry count of a chunk changes only when a transmission of the
\* chunk fails transiently, and then by exactly one; it never passes
\* maxChunkRetries, and a chunk turns 'error' on a transient failure only
\* with its retry count at maxChunkRetries.
C6_RetryCountAndTerminal ==
  [][\A c \in 1..MaxChunkObjs :
       LET ch == chunks[c]
           ch2 == chunks'[c]
           failed == /\ ch.xhr.kind = "send"
                     /\ \E code \in Codes \ ({200, 201} \cup permanentErrors) :
                           XhrDone(c, code)
       IN (ch.fileObj # 0 /\ ch2.fileObj = ch.fileObj) =>
            /\ (failed /\ ch.retries < opt.maxChunkRetries)
                  => ch2.retries = ch.retries + 1
            /\ ch2.retries # ch.retries
                  => (failed /\ ch2.retries = ch.retries + 1)
            /\ ch2.retries <= opt.maxChunkRetries
            /\ (failed /\ chunk_status(ch2) = "error")
                  => ch.retries = opt.maxChunkRetries]_vars

OthersWithPending(f) ==
  {g \in Tracked \ {f} :
     /\ ~fobjs[g].pause
     /\ \E c \in Range(fobjs[g].chunks) : chunk_status(chunks[c]) = "pending"}

\* C8: when cancel() is called on a file while another tracked file that is
\* not paused has a pending chunk, the scheduling pass of that cancel()
\* dispatches a chunk of such a file.
C8_CancelDispatchesOther ==
  [][\A f \in 1..MaxFileObjs :
       (Cancel(f) /\ OthersWithPending(f) # {}) =>
          \E i \in 1..Len(disp') :
             chunks'[disp'[i].c].fileObj \in OthersWithPending(f)]_vars

\* the scheduler has dispatched a chunk of the file
Started(f) ==
  /\ f <= Len(fobjs)
  /\ \E c \in Range(fobjs[f].chunks) : chunks[c].xhr.kind # "none"

Completed(f) == f <= Len(fobjs) /\ file_isComplete(Heap, f)

\* C9: with testChunks on and every probe answered with success, no
\* transmission request is ever issued, the step in which the last probe of
\* a file succeeds makes the file complete and emits fileSuccess once, and
\* every file the scheduler has started eventually is complete.
C9_ProbedFileCompletes ==
  /\ [](/\ ev.posted = {}
        /\ \A c \in 1..MaxChunkObjs :
              chunks[c].xhr.kind # "send" /\ chunks[c].orphans.send = 0)
  /\ [][\A f \in 1..MaxFileObjs :
          (~Completed(f) /\ Completed(f)') => ev'.fileSuccess[f] = 1]_vars
  /\ \A f \in 1..MaxFileObjs : Started(f) ~> Completed(f)

\* a file of several chunks is complete, every chunk by its probe
C9_Witness ==
  \E f \in 1..MaxFileObjs :
    /\ Completed(f)
    /\ NChunks(f) >= 3
    /\ ev.fileSuccess[f] = 1
    /\ \A i \in 1..NChunks(f) :
          /\ ChunkOf(f, i).tested
          /\ ChunkOf(f, i).xhr = [kind |-> "test", readyState |-> 4, status |-> 200]

\* C10: with maxFiles = 1 and one file tracked, adding one file that passes
\* the checks raises no maxFiles rejection and leaves exactly one tracked
\* file, the one just added.
C10_SingleFileReplaced ==
  [][\A n \in 0..MaxSize :
       LET item == PlainFile("a", n) IN
       (opt.maxFiles = 1 /\ Len(files) = 1 /\ AddFiles(<<item>>)) =>
          /\ ev'.maxFilesError = 0
          /\ Len(files') = 1
          /\ files'[1] \notin Range(files)
          /\ fobjs'[files'[1]].uniqueIdentifier = generateUniqueIdentifier(item)]_vars

\* C11: for every combination of chunk attributes status() returns the
\* result of the precedence table: pendingRetry -> uploading; else
\* markComplete -> success; else no request -> pending; else request
\* unresolved -> uploading; else code 200/201 -> success; else code in the
\* permanent-error set or retries >= maxChunkRetries -> error; else pending.
C11_StatusPrecedence ==
  [][\A c \in 1..MaxChunkObjs :
       StatusCall(c) =>
         LET ch == chunks[c]
             rows == <<<<ch.pendingRetry, "uploading">>,
                       <<ch.markComplete, "success">>,
                       <<ch.xhr = NoXhr, "pending">>,
                       <<ch.xhr.readyState # 4, "uploading">>,
                       <<ch.xhr.status \in {200, 201}, "success">>,
                       <<ch.xhr.status \in permanentErrors, "error">>,
                       <<ch.retries >= opt.maxChunkRetries, "error">>,
                       <<TRUE, "pending">>>>
             first == CHOOSE i \in 1..Len(rows) :
                        rows[i][1] /\ \A j \in 1..(i - 1) : ~rows[j][1]
         IN ev'.returned = <<rows[first][2]>>]_vars

\* status() was read on a chunk whose retry is pending, that is marked
\* complete and whose request resolved with a permanent error, all at once
C11_Witness ==
  /\ ev.returned = <<"uploading">>
  /\ chunks[1].pendingRetry /\ chunks[1].markComplete
  /\ chunks[1].xhr.readyState = 4 /\ chunks[1].xhr.status = 500

\* C12: the queue-wide complete notification is emitted only in a step that
\* leaves every tracked file complete, at most once in a step, and a step
\* that follows one which emitted it does not emit it again.
C12_CompleteOnce ==
  /\ [](ev.complete > 0 => \A f \in Tracked : Completed(f))
  /\ [](ev.complete <= 1)
  /\ [][ev.complete > 0 => ev'.complete = 0]_vars

C14_ErrorIsTerminal ==
  [][\A c \in 1..MaxChunkObjs :
       (/\ chunks[c].fileObj # 0
        /\ chunk_status(chunks[c]) = "error"
        /\ chunks'[c].fileObj = chunks[c].fileObj
        /\ c \in Range(fobjs'[chunks[c].fileObj].chunks))
       => /\ chunk_status(chunks'[c]) = "error"
          /\ \A i \in 1..Len(disp') : disp'[i].c # c
          /\ ~RetryTimer(c)]_vars

\* C15: a probe of a chunk the server stores is answered 200 and leaves the
\* chunk with that answer, and such a chunk is not transmitted in any later
\* step; a probe of a chunk the server does not store is answered 404 and
\* the chunk is transmitted at once.
C15_Resumable ==
  /\ [][\A c \in 1..MaxChunkObjs :
          ProbeServed(c) =>
            chunks'[c].xhr =
              IF chunkPath(Heap, c) \in uploads
              THEN [kind |-> "test", readyState |-> 4, status |-> 200]
              ELSE [kind |-> "send", readyState |-> 1, status |-> 0]]_vars
  /\ [][\A c \in 1..MaxChunkObjs :
          (/\ chunks[c].xhr = [kind |-> "test", readyState |-> 4, status |-> 200]
           /\ chunks'[c].fileObj = chunks[c].fileObj)
          => /\ chunks'[c].xhr = chunks[c].xhr
             /\ chunks'[c].orphans.send = 0]_vars

\* the file was cancelled and added again: the chunk transmitted before is
\* found by its probe, the other chunk is not found and is in transmission
C15_Witness ==
  /\ Len(fobjs) = 2
  /\ NChunks(2) = 2
  /\ ChunkOf(2, 1).xhr = [kind |-> "test", readyState |-> 4, status |-> 200]
  /\ ChunkOf(2, 2).xhr = [kind |-> "send", readyState |-> 1, status |-> 0]
  /\ uploads = {<<generateUniqueIdentifier(File5), 1>>}

\* a file object that cancel() removed from the tracked files
Cancelled(f) == f \in 1..Len(fobjs) /\ f \notin Tracked

\* C16: once a file is cancelled no request of one of its chunks is
\* outstanding, and no step starts a transmission for it or emits
\* fileSuccess or fileError for it.
C16_CancelledFileIsQuiet ==
  \A f \in 1..MaxFileObjs :
    Cancelled(f) =>
      /\ \A c \in 1..MaxChunkObjs :
            chunks[c].fileObj = f => Outstanding(chunks[c]) = 0
      /\ f \notin ev.posted
      /\ ev.fileSuccess[f] = 0
      /\ ev.fileError[f] = 0

\* C17: isPaused() of a tracked file is the logical OR of the file's own
\* pause flag and the queue-level pause, and the scheduler dispatches no
\* chunk of a file that is paused in that sense.
C17_EffectivePause ==
  /\ \A f \in Tracked : file_isPaused(Heap, f) <=> (fobjs[f].pause \/ queuePause)
  /\ \A i \in 1..Len(disp) :
        ~(fobjs[chunks[disp[i].c].fileObj].pause \/ queuePause)

\* C18: an addFiles call creates no file for an item that fails an
\* admission check (the batch is over the file ceiling; the extension and
\* the MIME type of the file are not in the allow-list; the file is smaller
\* than minFileSize; the file is larger than maxFileSize): it tracks at most
\* as many new files as items passed, each with the identifier of an item
\* that passed; it invokes the file-type, minimum-size and maximum-size
\* callbacks once per item that fails that check, and the maxFiles callback
\* once for a batch over the ceiling; it emits no fileError and dispatches
\* nothing.
C18_RejectedNeverTracked ==
  [][\A batch \in {ev'.batch} :
       LET canon(entry) ==
             LET t == toLowerCase(SelectSeq(entry, LAMBDA ch : ch # " "))
             IN IF t # <<>> /\ t[1] = "." THEN Tail(t) ELSE t
           listed(item) ==
             \E k \in 1..Len(opt.fileType) :
               LET e == canon(opt.fileType[k]) IN
               \/ e = toLowerCase(item.ext)
               \/ e = item.type
               \/ /\ Len(e) = 3 /\ e[2] = "/" /\ e[3] = "*"
                  /\ item.type # <<>> /\ item.type[1] = e[1]
           Rejection(i) ==
             IF /\ opt.maxFiles # 0
                /\ Len(batch) + Len(filesRef) > opt.maxFiles
                /\ ~(opt.maxFiles = 1 /\ Len(filesRef) = 1 /\ Len(batch) = 1)
               THEN "maxFiles"
             ELSE IF opt.fileType # <<>> /\ ~listed(batch[i]) THEN "fileType"
             ELSE IF opt.minFileSize # 0 /\ batch[i].size < opt.minFileSize
               THEN "minFileSize"
             ELSE IF opt.maxFileSize # 0 /\ batch[i].size > opt.maxFileSize
               THEN "maxFileSize"
             ELSE "none"
           RejectedFor(why) == {i \in 1..Len(batch) : Rejection(i) = why}
       IN batch # <<>> =>
         /\ Len(fobjs') - Len(fobjs) <= Cardinality(RejectedFor("none"))
         /\ \A f \in (Len(fobjs) + 1)..Len(fobjs') :
               \E i \in RejectedFor("none") :
                 fobjs'[f].uniqueIdentifier = generateUniqueIdentifier(batch[i])
         /\ \A f \in Range(files') : f \in Range(files) \/ f > Len(fobjs)
         /\ ev'.maxFilesError = IF RejectedFor("maxFiles") # {} THEN 1 ELSE 0
         /\ ev'.fileTypeError = Cardinality(RejectedFor("fileType"))
         /\ ev'.minFileSizeError = Cardinality(RejectedFor("minFileSize"))
         /\ ev'.maxFileSizeError = Cardinality(RejectedFor("maxFileSize"))
         /\ \A f \in 1..MaxFileObjs : ev'.fileError[f] = 0
         /\ disp' = <<>> /\ ev'.posted = {}]_vars

\* a batch of two was added: one file was rejected for its type and the
\* other was admitted, probed and found
C18_Witness ==
  /\ opt.fileType = <<<<"i", "/", "*">>>>
  /\ Len(fobjs) = 1
  /\ files = <<1>>
  /\ fobjs[1].uniqueIdentifier[2] = <<"a", "p", "n">>
  /\ ChunkOf(1, 1).xhr = [kind |-> "test", readyState |-> 4, status |-> 200]

\* C19: no two tracked files share a uniqueIdentifier, and an addFiles call
\* creates no file for an item whose identifier a tracked file has.
C19_UniqueIdentifiers ==
  /\ [](\A i, j \in 1..Len(files) :
          i # j => fobjs[files[i]].uniqueIdentifier # fobjs[files[j]].uniqueIdentifier)
  /\ [][\A f \in (Len(fobjs) + 1)..Len(fobjs') :
          \A g \in Tracked :
            fobjs'[f].uniqueIdentifier # fobjs[g].uniqueIdentifier]_vars

\* C20: the scheduler calls send() only on chunks whose status is
\* 'pending', in every path (boundary priority, regular scan, stuck-chunk
\* sweep); in particular never on a chunk whose retry is pending, which
\* reports 'uploading'.
C20_SchedulerSendsPendingOnly ==
  \A i \in 1..Len(disp) : disp[i].status = "pending"

\* C21: a call of status() leaves every attribute of the chunk unchanged,
\* the request it holds in particular, for every combination of attributes.
C21_StatusIsPure ==
  [][\A c \in 1..MaxChunkObjs : StatusCall(c) => chunks'[c] = chunks[c]]_vars

\* C22 as stated: with boundary priority on, a scheduler call dispatches the
\* last chunk of a file only if no file of the list that is not paused has a
\* first chunk that is pending with its pre-send hook not started, and a
\* chunk that is neither first nor last only if no first or last chunk
\* qualifies.
C22_FirstsBeforeLastsAsStated ==
  [][\A i \in 1..Len(disp') :
       LET e == disp'[i]
           F == chunks'[e.c].fileObj
           list(g) == fobjs'[g].chunks
           qual(g, idx) == /\ ~fobjs'[g].pause
                           /\ idx >= 1 /\ idx <= Len(list(g))
                           /\ list(g)[idx] \in e.pending
                           /\ e.hooks[list(g)[idx]] = 0
           isLast == Len(list(F)) > 1 /\ e.c = list(F)[Len(list(F))]
           isFirst == Len(list(F)) >= 1 /\ e.c = list(F)[1]
       IN opt.prioritizeFirstAndLastChunk =>
            /\ isLast => \A g \in Range(filesRef) : ~qual(g, 1)
            /\ (~isLast /\ ~isFirst) =>
                  \A g \in Range(filesRef) :
                     ~qual(g, 1) /\ ~(Len(list(g)) > 1 /\ qual(g, Len(list(g))))]_vars

\* C22 amended: with boundary priority on, a scheduler call walks the files
\* of its list in admission order and tries, file by file, the first chunk
\* and then the last chunk (a chunk qualifies when it is pending with its
\* pre-send hook not started and its file is not paused): the last chunk of
\* a file is dispatched only if the first chunk of that file and the first
\* and last chunks of every earlier file do not qualify, a first chunk only
\* if the first and last chunks of every earlier file do not qualify, and a
\* chunk that is neither first nor last only if no first or last chunk of
\* any file of the list qualifies.
C22_BoundaryPriority ==
  [][\A i \in 1..Len(disp') :
       LET e == disp'[i]
           F == chunks'[e.c].fileObj
           list(g) == fobjs'[g].chunks
           qual(g, idx) == /\ ~fobjs'[g].pause
                           /\ idx >= 1 /\ idx <= Len(list(g))
                           /\ list(g)[idx] \in e.pending
                           /\ e.hooks[list(g)[idx]] = 0
           boundary(g) == qual(g, 1) \/ (Len(list(g)) > 1 /\ qual(g, Len(list(g))))
           isLast == Len(list(F)) > 1 /\ e.c = list(F)[Len(list(F))]
           isFirst == Len(list(F)) >= 1 /\ e.c = list(F)[1]
           earlier == {filesRef[k] : k \in {k \in 1..Len(filesRef) :
                         \E m \in 1..Len(filesRef) : k < m /\ filesRef[m] = F}}
       IN opt.prioritizeFirstAndLastChunk =>
            /\ isLast => ~qual(F, 1) /\ \A g \in earlier : ~boundary(g)
            /\ isFirst => \A g \in earlier : ~boundary(g)
            /\ (~isLast /\ ~isFirst) => \A g \in Range(filesRef) : ~boundary(g)]_vars

\* one scheduler pass dispatched the last chunk of the first file while the
\* first chunk of the second file was pending; the second file is not paused
C22_Witness ==
  /\ Len(filesRef) = 2
  /\ \E i \in 1..Len(disp) :
       /\ disp[i].via = "last"
       /\ chunks[disp[i].c].fileObj = filesRef[1]
       /\ fobjs[filesRef[2]].chunks[1] \in disp[i].pending
       /\ disp[i].hooks[fobjs[filesRef[2]].chunks[1]] = 0
       /\ ~fobjs[filesRef[2]].pause

\* C23 as stated: the regular scan dispatches the chunk at offset k of a
\* file only if no chunk of the file with a lower offset is pending and no
\* tracked file admitted earlier that is not paused has a pending chunk
\* that can be dispatched (its pre-send hook is not running).
C23_ScanOrderAsStated ==
  [][\A i \in 1..Len(disp') :
       LET e == disp'[i]
           F == chunks'[e.c].fileObj
           list(g) == fobjs'[g].chunks
           k == CHOOSE j \in 1..Len(list(F)) : list(F)[j] = e.c
       IN e.via = "scan" =>
            /\ \A j \in 1..(k - 1) : list(F)[j] \notin e.pending
            /\ \A g \in Range(files') :
                 (g < F /\ ~fobjs'[g].pause) =>
                    \A j \in 1..Len(list(g)) :
                       ~(list(g)[j] \in e.pending /\ e.hooks[list(g)[j]] # 1)]_vars

\* C23 amended: the regular scan dispatches the chunk at offset k of a file
\* only if no chunk of the file with a lower offset is pending with its
\* pre-send hook not running, and no tracked file admitted earlier that is
\* not paused has a pending chunk whose pre-send hook is not running.
C23_ScanOrder ==
  [][\A i \in 1..Len(disp') :
       LET e == disp'[i]
           F == chunks'[e.c].fileObj
           list(g) == fobjs'[g].chunks
           k == CHOOSE j \in 1..Len(list(F)) : list(F)[j] = e.c
       IN e.via = "scan" =>
            /\ \A j \in 1..(k - 1) :
                 ~(list(F)[j] \in e.pending /\ e.hooks[list(F)[j]] # 1)
            /\ \A g \in Range(files') :
                 (g < F /\ ~fobjs'[g].pause) =>
                    \A j \in 1..Len(list(g)) :
                       ~(list(g)[j] \in e.pending /\ e.hooks[list(g)[j]] # 1)]_vars

\* the scan dispatched the second chunk of the second file while the first
\* file was paused with a pending chunk and the first chunk of the second
\* file was pending with its pre-send hook running
C23_Witness ==
  /\ Len(fobjs) = 2
  /\ fobjs[1].pause
  /\ \E i \in 1..Len(disp) :
       /\ disp[i].via = "scan"
       /\ disp[i].c = fobjs[2].chunks[2]
       /\ fobjs[2].chunks[1] \in disp[i].pending
       /\ disp[i].hooks[fobjs[2].chunks[1]] = 1
       /\ \E c \in Range(fobjs[1].chunks) : c \in disp[i].pending

\* C24: in every reachable state the retry count of every chunk is at most
\* maxChunkRetries.
C24_RetriesBounded ==
  \A c \in 1..MaxChunkObjs :
    chunks[c].fileObj # 0 => chunks[c].retries <= opt.maxChunkRetries

\* C25: with test-before-send on, no transmission is issued for a chunk
\* that has not been probed, and a scheduler call on such a chunk issues a
\* probe; a probe that resolves with anything but success (not found, server
\* error, network error or timeout) is followed at once by the transmission
\* of the chunk, its retry count unchanged; and once a probe has resolved
\* for a chunk no further probe is issued for that chunk.
C25_ProbeThenTransmit ==
  /\ [](\A c \in 1..MaxChunkObjs :
          (chunks[c].xhr.kind = "send" \/ chunks[c].orphans.send > 0)
             => chunks[c].tested)
  /\ [][\A i \in 1..Len(disp') :
          (~chunks[disp'[i].c].tested /\ disp'[i].claimed) =>
             chunks'[disp'[i].c].xhr = [kind |-> "test", readyState |-> 1, status |-> 0]]_vars
  /\ [][\A c \in 1..MaxChunkObjs :
          (/\ chunks[c].xhr.kind = "test"
           /\ \E code \in {0, 404, 503} : XhrDone(c, code))
          => /\ chunks'[c].tested
             /\ chunks'[c].xhr = [kind |-> "send", readyState |-> 1, status |-> 0]
             /\ chunks'[c].retries = chunks[c].retries]_vars
  /\ [][\A c \in 1..MaxChunkObjs :
          (chunks[c].tested /\ chunks'[c].fileObj = chunks[c].fileObj) =>
             /\ chunks'[c].tested
             /\ chunks'[c].orphans.test <= chunks[c].orphans.test
             /\ (chunks'[c].xhr.kind = "test" /\ chunks'[c].xhr.readyState < 4)
                   => chunks'[c].xhr = chunks[c].xhr]_vars

\* the probe of the first chunk failed and its transmission is under way
\* with no retry consumed, while the probe of the second chunk succeeded
C25_Witness ==
  /\ Len(fobjs) = 1 /\ NChunks(1) = 2
  /\ ChunkOf(1, 1).tested
  /\ ChunkOf(1, 1).xhr = [kind |-> "send", readyState |-> 1, status |-> 0]
  /\ ChunkOf(1, 1).retries = 0
  /\ ChunkOf(1, 2).xhr = [kind |-> "test", readyState |-> 4, status |-> 200]

\* C26: a transmission of a chunk that fails transiently (a status code that
\* is neither success nor a permanent error, a network error or a timeout)
\* while the retry count of the chunk is below maxChunkRetries leaves the
\* error flag of the file alone and emits no fileError; the chunk is sent
\* again at once when no retry interval is configured, and otherwise its
\* retry is pending until the retry timer sends it.
C26_TransientFailureContained ==
  [][\A c \in 1..MaxChunkObjs :
       LET f == chunks[c].fileObj
           failed == \/ /\ chunks[c].xhr.kind = "send"
                        /\ \E code \in {0, 503} : XhrDone(c, code)
                     \/ OrphanDone(c, "send")
           request == [kind |-> "send", readyState |-> 1, status |-> 0]
       IN /\ (failed /\ chunks[c].retries < opt.maxChunkRetries) =>
               /\ fobjs'[f].error = fobjs[f].error
               /\ ev'.fileError[f] = 0
               /\ IF opt.chunkRetryInterval
                  THEN /\ chunks'[c].pendingRetry
                       /\ chunks'[c].timers = chunks[c].timers + 1
                  ELSE chunks'[c].xhr = request
          /\ (RetryTimer(c) /\ chunks[c].pendingRetry) =>
               /\ chunks'[c].xhr = request
               /\ ~chunks'[c].pendingRetry]_vars

C28_HookBeforeTransport ==
  /\ [](opt.preprocess =>
          \A c \in 1..MaxChunkObjs :
             (\/ chunks[c].xhr.kind # "none"
              \/ chunks[c].orphans # NoOrphans
              \/ chunks[c].tested
              \/ chunks[c].timers > 0)
             => chunks[c].preprocessState = 2)
  /\ [][opt.preprocess =>
          \A c \in 1..MaxChunkObjs :
             (chunks[c].fileObj # 0 /\ chunks'[c].fileObj = chunks[c].fileObj) =>
                \/ chunks'[c].preprocessState = chunks[c].preprocessState
                \/ /\ chunks'[c].preprocessState = chunks[c].preprocessState + 1
                   /\ chunks'[c].preprocessState <= 2]_vars
  /\ [][opt.preprocess =>
          \A i \in 1..Len(disp') :
             chunks[disp'[i].c].preprocessState = 1 =>
                chunks'[disp'[i].c] = chunks[disp'[i].c]]_vars

\* send() was called on a chunk whose hook is running and did nothing,
\* while the other chunk, its hook done, is in transmission after its probe
C28_Witness ==
  /\ opt.preprocess
  /\ \E i \in 1..Len(disp) :
       /\ ~disp[i].claimed
       /\ chunks[disp[i].c].preprocessState = 1
       /\ chunks[disp[i].c].xhr = NoXhr
  /\ \E c \in 1..MaxChunkObjs :
       /\ chunks[c].preprocessState = 2
       /\ chunks[c].xhr.kind = "send"

\* C29: retry() on a file in error clears the error flag, aborts the
\* requests of the chunks of the file, replaces the chunk list by fresh
\* chunks (pending, retry count 0, not probed, no request), sets the progress
\* high-water mark to 0 and makes no scheduler call itself; the
\* chunkingComplete event that follows makes exactly simultaneousUploads
\* scheduler calls for every retry() that waits for it, after which a chunk
\* of the file is under way; a retry() that waits always has a
\* chunkingComplete event ahead.
C29_RetryRestarts ==
  /\ [][Retry(1) =>
          /\ ~fobjs'[1].error
          /\ fobjs'[1]._prevProgress = RZero
          /\ Len(fobjs'[1].chunks) = Len(fobjs[1].chunks)
          /\ \A i \in 1..Len(fobjs'[1].chunks) :
                LET ch == chunks'[fobjs'[1].chunks[i]] IN
                /\ ch.fileObj = 1 /\ ch.offset = i - 1
                /\ chunk_status(ch) = "pending"
                /\ ch.retries = 0 /\ ~ch.tested /\ ch.xhr = NoXhr
                /\ ~ch.pendingRetry /\ ~ch.markComplete
                /\ ch.preprocessState = 0 /\ ch.loaded = 0
                /\ ch.timers = 0 /\ ch.orphans = NoOrphans
          /\ \A d \in Range(fobjs[1].chunks) : chunks'[d].xhr = NoXhr
          /\ ev'.advances = 0 /\ disp' = <<>>
          /\ retryL' = retryL + 1]_vars
  /\ [][ChunkingComplete =>
          /\ ev'.advances = retryL * opt.simultaneousUploads
          /\ retryL' = 0
          /\ (retryL > 0 /\ ~fobjs[1].pause) =>
                \E c \in Range(fobjs'[1].chunks) : chunks'[c].xhr.kind # "none"]_vars
  /\ [](retryL > 0 => ccTimers > 0)

\* the file was half done when its second chunk failed for good; it was
\* retried, and the chunkingComplete event made two scheduler calls, which
\* dispatched the two fresh chunks
C29_Witness ==
  /\ opt.simultaneousUploads = 2
  /\ shown[1] = <<1, 2>>
  /\ ~fobjs[1].error
  /\ fobjs[1]._prevProgress = RZero
  /\ ev.advances = 2
  /\ Len(disp) = 2
  /\ \A i \in 1..2 :
       /\ ChunkOf(1, i).xhr = [kind |-> "send", readyState |-> 1, status |-> 0]
       /\ ChunkOf(1, i).retries = 0

\* C30: when pause(true) or cancel() of a file aborts a request of one of
\* its chunks while another tracked file that is not paused has a pending
\* chunk, the request is cancelled and the same call invokes the scheduler,
\* which dispatches a chunk of such a file.
C30_PauseFreesSlots ==
  [][\A f \in 1..MaxFileObjs :
       (/\ Pause(f) \/ Cancel(f)
        /\ \E c \in Range(fobjs[f].chunks) :
              chunks[c].xhr.kind # "none" /\ chunks[c].xhr.readyState < 4
        /\ OthersWithPending(f) # {})
       => /\ \A c \in Range(fobjs[f].chunks) :
                ~(chunks'[c].fileObj = f /\ chunks'[c].xhr.kind # "none"
                                         /\ chunks'[c].xhr.readyState < 4)
          /\ ev'.advances >= 1
          /\ \E i \in 1..Len(disp') :
                chunks'[disp'[i].c].fileObj \in OthersWithPending(f)]_vars

\* C31: when the upload route takes a file for received, every chunk
\* 1..totalChunks of that file identifier is stored in the upload directory.
C31_ReceivedWhenAllStored ==
  \A f \in 1..Len(fobjs) :
    fobjs[f].uniqueIdentifier \in ev.received =>
      \A k \in 1..NChunks(f) : <<fobjs[f].uniqueIdentifier, k>> \in uploads

\* C32: while a tracked file is paused none of its chunks holds a request
\* in flight, whatever started it: the scheduler, a retry timer or the
\* completion of a pre-send hook.
C32_PausedFileIsQuiet ==
  \A f \in Tracked :
    fobjs[f].pause =>
      \A c \in Range(fobjs[f].chunks) :
        ~(chunks[c].xhr.kind # "none" /\ chunks[c].xhr.readyState < 4)

C34_CompletionStable ==
  [][\A f \in 1..MaxFileObjs :
       (/\ f \in Tracked
        /\ ~Retry(f) /\ ~Cancel(f)
        /\ fobjs'[f].chunks = fobjs[f].chunks)
       => /\ \A c \in Range(fobjs[f].chunks) :
               chunk_status(chunks[c]) = "success"
                 => chunk_status(chunks'[c]) = "success"
          /\ Completed(f) => file_isComplete([Heap EXCEPT !.fobjs = fobjs',
                                                          !.chunks = chunks'], f)]_vars

\* C35: a step emits fileSuccess for a file at most once, only when the
\* file is complete and its error flag is not set after the step, and only
\* when the file was not complete before the step: a file that stayed
\* complete has had its fileSuccess, so the emission is the first one since
\* the file was bootstrapped.
C35_FileSuccessOnce ==
  [][\A f \in 1..MaxFileObjs :
       ev'.fileSuccess[f] >= 1
       => /\ ev'.fileSuccess[f] = 1
          /\ f <= Len(fobjs)
          /\ ~Completed(f)
          /\ file_isComplete([Heap EXCEPT !.fobjs = fobjs', !.chunks = chunks'], f)
          /\ ~fobjs'[f].error]_vars

\* C36: with maxFiles configured the number of tracked files never exceeds
\* maxFiles.
C36_TrackedWithinMaxFiles ==
  opt.maxFiles # 0 => Len(files) <= opt.maxFiles

\* C37: while the error flag of a tracked file is set, and until retry() or
\* cancel() is called on it, no step dispatches a chunk of the file and no
\* chunk of the file gets a request in flight.
C37_ErroredFileIsIdle ==
  [][\A f \in 1..MaxFileObjs :
       (/\ f \in Tracked
        /\ fobjs[f].error
        /\ ~Retry(f) /\ ~Cancel(f))
       => /\ \A i \in 1..Len(disp') : disp'[i].c \notin Range(fobjs[f].chunks)
          /\ \A c \in Range(fobjs[f].chunks) :
               (chunks'[c].xhr.kind # "none" /\ chunks'[c].xhr.readyState < 4)
                 => (chunks[c].xhr.kind # "none" /\ chunks[c].xhr.readyState < 4)]_vars

\* C38: with a pre-upload hook of the file configured, the hook is started
\* at most once per file (its state never goes back), and a chunk is
\* dispatched or holds a request only when the hook of its file has
\* finished.
C38_FileHookBeforeChunks ==
  /\ [][\A f \in 1..Len(fobjs) :
          fobjs'[f].preprocessState >= fobjs[f].preprocessState]_vars
  /\ [](opt.preprocessFile =>
          /\ \A i \in 1..Len(disp) :
                fobjs[chunks[disp[i].c].fileObj].preprocessState = 2
          /\ \A c \in 1..MaxChunkObjs :
                (chunks[c].fileObj # 0 /\ chunks[c].xhr.kind # "none")
                  => fobjs[chunks[c].fileObj].preprocessState = 2)

====
